---- MODULE Spec2Model ----
(***************************************************************************)
(* A model of docen (src/docen.go): the Docen configuration builder, its   *)
(* setters, GenerateDockerfile, and the probes getVersion, getPackageName, *)
(* parsePackageName, getAdditionalFolders and isVendorMode.                *)
(*                                                                         *)
(* Go strings that the code inspects byte by byte (the runtime version,    *)
(* the content of go.mod, file and folder paths) are sequences of          *)
(* one-character strings; Str turns such a sequence into the text that is  *)
(* written to the Dockerfile.  Strings the code only copies (port,         *)
(* timezone, the version argument) are TLA+ strings.                       *)
(***************************************************************************)
EXTENDS Integers, Sequences, FiniteSets, TLC

VARIABLES
    d,        \* the Docen struct (src/docen.go:46-53)
    dir,      \* what readDir("./") returns: [err, files]
    goMod,    \* what openFile("go.mod") finds: [exists, content]
    runVer,   \* what runVer() returns, a sequence of characters
    pc,       \* where the calling program is
    op,       \* the last call made: <<name, argument>>
    data,     \* the lines of the text handed to createDockerfile
    ret       \* what the last call returned

vars == <<d, dir, goMod, runVer, pc, op, data, ret>>

----------------------------------------------------------------------------
(* Bounds of the inputs that are enumerated.                               *)

MaxVerLen == 5

MaxParts == 5

----------------------------------------------------------------------------
(* Program constants.                                                      *)

defaultAppName == "app"

defaultTagVersion == "alpine"

vendorFolderName == <<"v","e","n","d","o","r">>

static == <<"s","t","a","t","i","c">>

assets == <<"a","s","s","e","t","s">>

templates == <<"t","e","m","p","l","a","t","e","s">>

config == <<"c","o","n","f","i","g">>

additionalFolders == {static, assets, templates, config}

moduleKw == <<"m","o","d","u","l","e"," ">>

Digits == {"0","1","2","3","4","5","6","7","8","9"}

----------------------------------------------------------------------------
(* Values of the variables a specification does not use.                   *)

NoDocen ==
    [timezone |-> "", version |-> "", port |-> "",
     additionFolders |-> {}, additionFiles |-> {}, isTestMode |-> FALSE]

NoDir == [err |-> TRUE, files |-> <<>>]

NoGoMod == [exists |-> FALSE, content |-> <<>>]

SeqsUpTo(S, n) == UNION {[1..k -> S] : k \in 0..n}

RECURSIVE Flatten(_)
Flatten(parts) == IF parts = <<>> THEN <<>> ELSE Head(parts) \o Flatten(Tail(parts))

----------------------------------------------------------------------------
(* The library functions the code calls, on sequences of characters.       *)

RECURSIVE Str(_)
Str(s) == IF s = <<>> THEN "" ELSE Head(s) \o Str(Tail(s))

\* s[i..] begins with pat
HasPrefixAt(s, i, pat) ==
    /\ i + Len(pat) - 1 <= Len(s)
    /\ \A k \in 1..Len(pat) : s[i + k - 1] = pat[k]

\* strings.ReplaceAll(s, old, new), old non-empty: the non-overlapping
\* occurrences of old, found from left to right, are replaced
RECURSIVE ReplaceFrom(_, _, _, _)
ReplaceFrom(s, i, old, new) ==
    IF i > Len(s) THEN <<>>
    ELSE IF HasPrefixAt(s, i, old)
         THEN new \o ReplaceFrom(s, i + Len(old), old, new)
         ELSE <<s[i]>> \o ReplaceFrom(s, i + 1, old, new)

ReplaceAll(s, old, new) == ReplaceFrom(s, 1, old, new)

\* strings.Split(s, sep) for a one-character sep: always at least one part
RECURSIVE SplitFrom(_, _, _, _)
SplitFrom(s, i, sep, cur) ==
    IF i > Len(s) THEN <<cur>>
    ELSE IF s[i] = sep
         THEN <<cur>> \o SplitFrom(s, i + 1, sep, <<>>)
         ELSE SplitFrom(s, i + 1, sep, Append(cur, s[i]))

Split(s, sep) == SplitFrom(s, 1, sep, <<>>)

\* strings.Join(parts, sep)
RECURSIVE Join(_, _)
Join(parts, sep) ==
    IF parts = <<>> THEN <<>>
    ELSE IF Len(parts) = 1 THEN parts[1]
    ELSE parts[1] \o sep \o Join(Tail(parts), sep)

\* regexp.MustCompile("[0-9.]+").FindAllString(s, -1): the maximal runs of
\* characters of the class, leftmost first
InClass(c) == c \in Digits \/ c = "."

RECURSIVE FindAllFrom(_, _, _)
FindAllFrom(s, i, cur) ==
    IF i > Len(s) THEN (IF cur = <<>> THEN <<>> ELSE <<cur>>)
    ELSE IF InClass(s[i])
         THEN FindAllFrom(s, i + 1, Append(cur, s[i]))
         ELSE (IF cur = <<>> THEN <<>> ELSE <<cur>>) \o FindAllFrom(s, i + 1, <<>>)

FindAllString(s) == FindAllFrom(s, 1, <<>>)

\* bufio.Reader.ReadLine on a reader holding content: the bytes before the
\* first "\n" (a "\r" right before it dropped too), or everything when there
\* is no "\n"; io.EOF when there is nothing to read.  Lines are shorter than
\* the reader's 4096-byte buffer.
RECURSIVE IndexOf(_, _, _)
IndexOf(s, c, i) ==
    IF i > Len(s) THEN 0 ELSE IF s[i] = c THEN i ELSE IndexOf(s, c, i + 1)

ReadLine(content) ==
    LET nl == IndexOf(content, "\n", 1) IN
    IF content = <<>> THEN [data |-> <<>>, err |-> "EOF"]
    ELSE IF nl = 0 THEN [data |-> content, err |-> "nil"]
    ELSE IF nl > 1 /\ content[nl - 1] = "\r"
         THEN [data |-> SubSeq(content, 1, nl - 2), err |-> "nil"]
         ELSE [data |-> SubSeq(content, 1, nl - 1), err |-> "nil"]

\* path/filepath.Clean on a Unix path
RECURSIVE CleanElems(_, _, _)
CleanElems(elems, out, rooted) ==
    IF elems = <<>> THEN out
    ELSE LET e == Head(elems) rest == Tail(elems) IN
         IF e = <<>> \/ e = <<".">> THEN CleanElems(rest, out, rooted)
         ELSE IF e = <<".", ".">>
              THEN IF out # <<>> /\ out[Len(out)] # <<".", ".">>
                   THEN CleanElems(rest, SubSeq(out, 1, Len(out) - 1), rooted)
                   ELSE IF rooted THEN CleanElems(rest, out, rooted)
                   ELSE CleanElems(rest, Append(out, e), rooted)
              ELSE CleanElems(rest, Append(out, e), rooted)

Clean(path) ==
    IF path = <<>> THEN <<".">>
    ELSE LET rooted == path[1] = "/"
             body == Join(CleanElems(Split(path, "/"), <<>>, rooted), <<"/">>)
         IN  IF rooted THEN <<"/">> \o body
             ELSE IF body = <<>> THEN <<".">> ELSE body

\* path/filepath.Dir: all but the last element of path, cleaned
RECURSIVE LastSep(_, _)
LastSep(path, i) ==
    IF i = 0 THEN 0 ELSE IF path[i] = "/" THEN i ELSE LastSep(path, i - 1)

Dir(path) == Clean(SubSeq(path, 1, LastSep(path, Len(path))))

----------------------------------------------------------------------------
(* The probes.                                                             *)

\* getVersion: the runs of digits and periods of runVer(), joined, then
\* "-alpine"; "alpine" when there is no run
getVersion ==
    LET version == FindAllString(runVer) IN
    IF Len(version) = 0 THEN defaultTagVersion
    ELSE Str(Join(version, <<>>)) \o "-" \o defaultTagVersion

\* A call either returns a value or panics.
Returns(v) == [panic |-> FALSE, val |-> v]

Panics == [panic |-> TRUE, val |-> ""]

\* parsePackageName(r), r a reader holding content; module[0] on an empty
\* string is an index out of range
parsePackageName(content) ==
    LET line == ReadLine(content) IN
    IF line.err # "nil" THEN Returns(defaultAppName)
    ELSE LET module == ReplaceAll(line.data, moduleKw, <<>>) IN
         IF module = <<>> THEN Panics
         ELSE LET unquoted == IF module[1] = "\""
                              THEN ReplaceAll(module, <<"\"">>, <<>>)
                              ELSE module
                  name == Split(unquoted, "/")
              IN  Returns(Str(ReplaceAll(name[Len(name)], <<".">>, <<"_">>)))

\* getPackageName: "app" when go.mod cannot be opened
getPackageName ==
    IF ~goMod.exists THEN Returns(defaultAppName)
    ELSE parsePackageName(goMod.content)

\* getProjectFiles: readDir's entries, or its error
getProjectFiles == IF dir.err THEN [err |-> TRUE, files |-> <<>>] ELSE dir

\* a loop that takes every listed entry of the allow-list, directory or not
RECURSIVE FoldersFrom_AnyEntry(_, _, _)
FoldersFrom_AnyEntry(files, i, folders) ==
    IF i > Len(files) THEN folders
    ELSE IF files[i].name \in additionalFolders
         THEN FoldersFrom_AnyEntry(files, i + 1, folders \cup {files[i].name})
         ELSE FoldersFrom_AnyEntry(files, i + 1, folders)

\* the loop of getAdditionalFolders over files[i..]
RECURSIVE FoldersFrom(_, _, _)
FoldersFrom(files, i, folders) ==
    IF i > Len(files) THEN folders
    ELSE IF files[i].isDir /\ files[i].name \in additionalFolders
         THEN FoldersFrom(files, i + 1, folders \cup {files[i].name})
         ELSE FoldersFrom(files, i + 1, folders)

getAdditionalFolders ==
    LET listing == getProjectFiles IN
    IF listing.err THEN {} ELSE FoldersFrom(listing.files, 1, {})

\* a loop that takes any entry named vendor, directory or not
RECURSIVE VendorFrom_AnyEntry(_, _)
VendorFrom_AnyEntry(files, i) ==
    IF i > Len(files) THEN FALSE
    ELSE IF files[i].name = vendorFolderName THEN TRUE
    ELSE VendorFrom_AnyEntry(files, i + 1)

\* the loop of isVendorMode over files[i..]
RECURSIVE VendorFrom(_, _)
VendorFrom(files, i) ==
    IF i > Len(files) THEN FALSE
    ELSE IF files[i].isDir /\ files[i].name = vendorFolderName THEN TRUE
    ELSE VendorFrom(files, i + 1)

isVendorMode ==
    LET listing == getProjectFiles IN
    IF listing.err THEN FALSE ELSE VendorFrom(listing.files, 1)

\* a createDockerfile that drops the error
createDockerfile_Swallow(werr) == "nil"

\* createDockerfile: os.WriteFile's error, as it is
createDockerfile(werr) == werr

----------------------------------------------------------------------------
(* The configuration and its setters.                                      *)

\* the pointer every method returns
receiver == "d"

New ==
    [timezone |-> "", version |-> getVersion, port |-> "",
     additionFolders |-> getAdditionalFolders, additionFiles |-> {},
     isTestMode |-> FALSE]

\* additionalInfo.set
set(a, e) == a \cup {e}

\* what every setter does besides its assignment: it returns d; the caller
\* configures before it generates, so setters run while pc = "built"
Called(name, arg) ==
    /\ pc = "built"
    /\ op' = <<name, arg>>
    /\ ret' = receiver
    /\ UNCHANGED <<dir, goMod, runVer, pc, data>>

SetGoVersion(version) ==
    /\ Called("SetGoVersion", version)
    /\ d' = [d EXCEPT !.version = version \o "-" \o defaultTagVersion]

SetPort(port) ==
    /\ Called("SetPort", port)
    /\ d' = [d EXCEPT !.port = port]

\* a SetTimezone that builds a fresh port field
SetTimezone_ClearsPort(timezone) ==
    /\ Called("SetTimezone", timezone)
    /\ d' = [d EXCEPT !.timezone = timezone, !.port = ""]

SetTimezone(timezone) ==
    /\ Called("SetTimezone", timezone)
    /\ d' = [d EXCEPT !.timezone = timezone]

SetAdditionalFolder(path) ==
    /\ Called("SetAdditionalFolder", path)
    /\ d' = [d EXCEPT !.additionFolders = set(@, path)]

\* a SetAdditionalFile that leaves the folders alone
SetAdditionalFile_NoFolder(path) ==
    /\ Called("SetAdditionalFile", path)
    /\ d' = [d EXCEPT !.additionFiles = set(@, path)]

SetAdditionalFile(path) ==
    /\ Called("SetAdditionalFile", path)
    /\ d' = [d EXCEPT !.additionFiles = set(@, path),
                      !.additionFolders = set(@, Dir(path))]

SetTestMode(mode) ==
    /\ Called("SetTestMode", mode)
    /\ d' = [d EXCEPT !.isTestMode = mode]

----------------------------------------------------------------------------
(* GenerateDockerfile.                                                     *)

\* the orders in which a range over a Go map may visit its keys
Orders(S) ==
    {o \in [1..Cardinality(S) -> S] : \A i, j \in 1..Cardinality(S) : o[i] = o[j] => i = j}

MkdirLine(packageName, v) == "RUN mkdir -p /" \o packageName \o "/" \o Str(v)

CopyLine(packageName, v) ==
    "COPY --from=builder /" \o packageName \o "/" \o Str(v)
        \o " /" \o packageName \o "/" \o Str(v)

TestLine == "RUN CGO_ENABLED=0 go test ./..."

BuildLine(vendorTag, packageName) ==
    "RUN CGO_ENABLED=0 GOOS=linux GOARCH=amd64 go build " \o vendorTag
        \o " -ldflags=\"-w -s\" -o /" \o packageName

\* the lines written to the strings.Builder up to the build directive, each
\* without its "\n"; mkdirs is the order of the first range loop
BuilderStage(c, packageName, vendorMode, mkdirs) ==
    <<"FROM golang:" \o c.version \o " as builder",
      "RUN apk update && apk add --no-cache git ca-certificates tzdata && update-ca-certificates",
      "RUN adduser -D -g '' appuser",
      "RUN mkdir -p /" \o packageName>>
    \o [i \in 1..Len(mkdirs) |-> MkdirLine(packageName, mkdirs[i])]
    \o <<"COPY . /" \o packageName,
         "WORKDIR /" \o packageName>>
    \o (IF c.isTestMode THEN <<TestLine>> ELSE <<>>)
    \o <<BuildLine(IF vendorMode THEN "-mod=vendor" ELSE "", packageName)>>

\* a runtime stage that exposes the port before it copies anything
RuntimeStage_ExposeFirst(c, packageName, folders, files) ==
    <<"FROM scratch",
      "COPY --from=builder /usr/share/zoneinfo /usr/share/zoneinfo",
      "COPY --from=builder /etc/ssl/certs/ca-certificates.crt /etc/ssl/certs/",
      "COPY --from=builder /etc/passwd /etc/passwd">>
    \o (IF c.port # "" THEN <<"EXPOSE " \o c.port>> ELSE <<>>)
    \o (IF c.timezone # "" THEN <<"ENV TZ=" \o c.timezone>> ELSE <<>>)
    \o <<"COPY --from=builder /" \o packageName \o " /" \o packageName>>
    \o [i \in 1..Len(folders) |-> CopyLine(packageName, folders[i])]
    \o [i \in 1..Len(files) |-> CopyLine(packageName, files[i])]
    \o <<"USER appuser">>
    \o <<"ENTRYPOINT [\"/" \o packageName \o "\"]">>

\* a runtime stage that does not test whether port and timezone are set
RuntimeStage_NoGuards(c, packageName, folders, files) ==
    <<"FROM scratch",
      "COPY --from=builder /usr/share/zoneinfo /usr/share/zoneinfo",
      "COPY --from=builder /etc/ssl/certs/ca-certificates.crt /etc/ssl/certs/",
      "COPY --from=builder /etc/passwd /etc/passwd">>
    \o <<"ENV TZ=" \o c.timezone>>
    \o <<"COPY --from=builder /" \o packageName \o " /" \o packageName>>
    \o [i \in 1..Len(folders) |-> CopyLine(packageName, folders[i])]
    \o [i \in 1..Len(files) |-> CopyLine(packageName, files[i])]
    \o <<"USER appuser">>
    \o <<"EXPOSE " \o c.port>>
    \o <<"ENTRYPOINT [\"/" \o packageName \o "\"]">>

\* the lines written from "FROM scratch" on; folders and files are the
\* orders of the second and third range loops
RuntimeStage(c, packageName, folders, files) ==
    <<"FROM scratch",
      "COPY --from=builder /usr/share/zoneinfo /usr/share/zoneinfo",
      "COPY --from=builder /etc/ssl/certs/ca-certificates.crt /etc/ssl/certs/",
      "COPY --from=builder /etc/passwd /etc/passwd">>
    \o (IF c.timezone # "" THEN <<"ENV TZ=" \o c.timezone>> ELSE <<>>)
    \o <<"COPY --from=builder /" \o packageName \o " /" \o packageName>>
    \o [i \in 1..Len(folders) |-> CopyLine(packageName, folders[i])]
    \o [i \in 1..Len(files) |-> CopyLine(packageName, files[i])]
    \o <<"USER appuser">>
    \o (IF c.port # "" THEN <<"EXPOSE " \o c.port>> ELSE <<>>)
    \o <<"ENTRYPOINT [\"/" \o packageName \o "\"]">>

\* what os.WriteFile may return
WriteResults == {"nil", "EACCES"}

\* A panic in getPackageName ends the program before anything is written.
GenerateDockerfile ==
    /\ pc = "built"
    /\ IF getPackageName.panic
       THEN /\ pc' = "panic"
            /\ op' = <<"GenerateDockerfile", "none">>
            /\ UNCHANGED <<data, ret>>
       ELSE \E mkdirs \in Orders(d.additionFolders),
               folders \in Orders(d.additionFolders),
               files \in Orders(d.additionFiles),
               werr \in WriteResults :
                /\ data' = BuilderStage(d, getPackageName.val, isVendorMode, mkdirs)
                            \o RuntimeStage(d, getPackageName.val, folders, files)
                /\ ret' = createDockerfile(werr)
                /\ op' = <<"GenerateDockerfile", werr>>
                /\ pc' = "done"
    /\ UNCHANGED <<d, dir, goMod, runVer>>

----------------------------------------------------------------------------
(* Spec: a program that calls New in some working directory, then any      *)
(* setters with arguments of the sets below, then GenerateDockerfile.      *)

myFolder ==
    <<"m","y","-","f","o","l","d","e","r","/","s","o","m","e","-","f","i","l","e","s">>

anotherFolder ==
    <<"a","n","o","t","h","e","r","-","f","o","l","d","e","r","/",
      "s","o","m","e","-","f","i","l","e","s">>

anotherFile == anotherFolder \o <<"/","f","i","l","e">>

Versions == {"1.14.9"}

Ports == {"3000", "3000-4000"}

Timezones == {"Europe/Moscow"}

FolderPaths == {myFolder}

FilePaths == {anotherFile, myFolder \o <<"/","f">>}

Entry(name, isDir) == [name |-> name, isDir |-> isDir]

Listings ==
    { [err |-> TRUE, files |-> <<>>],
      [err |-> FALSE,
       files |-> <<Entry(<<"c","m","d">>, TRUE), Entry(config, FALSE),
                   Entry(static, TRUE), Entry(vendorFolderName, TRUE)>>],
      [err |-> FALSE,
       files |-> <<Entry(templates, FALSE), Entry(vendorFolderName, FALSE)>>] }

docenGoMod ==
    moduleKw \o <<"g","i","t","h","u","b",".","c","o","m","/",
                  "l","o","b","z","1","g","/","d","o","c","e","n","\n">>

Manifests ==
    { NoGoMod,
      [exists |-> TRUE, content |-> docenGoMod],
      [exists |-> TRUE, content |-> <<"\n">> \o docenGoMod] }

RunVers == { <<"g","o","1",".","1","3">>, <<"d","e","v","e","l">> }

Init ==
    /\ dir \in Listings
    /\ goMod \in Manifests
    /\ runVer \in RunVers
    /\ d = New
    /\ pc = "built"
    /\ op = <<"New", "">>
    /\ data = <<>>
    /\ ret = receiver

Next ==
    \/ \E version \in Versions : SetGoVersion(version)
    \/ \E port \in Ports : SetPort(port)
    \/ \E timezone \in Timezones : SetTimezone(timezone)
    \/ \E path \in FolderPaths : SetAdditionalFolder(path)
    \/ \E path \in FilePaths : SetAdditionalFile(path)
    \/ \E mode \in BOOLEAN : SetTestMode(mode)
    \/ GenerateDockerfile

Spec == Init /\ [][Next]_vars

----------------------------------------------------------------------------
(* SpecVersion: getVersion on every runtime version string of at most      *)
(* MaxVerLen characters over VerAlphabet.                                  *)

VerAlphabet == {"g", "1", ".", "3"}

InitVersion ==
    /\ runVer \in SeqsUpTo(VerAlphabet, MaxVerLen)
    /\ d = NoDocen /\ dir = NoDir /\ goMod = NoGoMod
    /\ pc = "call" /\ op = <<"none">> /\ data = <<>> /\ ret = ""

CallGetVersion ==
    /\ pc = "call"
    /\ ret' = getVersion
    /\ pc' = "returned"
    /\ op' = <<"getVersion">>
    /\ UNCHANGED <<d, dir, goMod, runVer, data>>

NextVersion == CallGetVersion

SpecVersion == InitVersion /\ [][NextVersion]_vars

----------------------------------------------------------------------------
(* SpecPkg: getPackageName on a go.mod that cannot be opened and on every  *)
(* go.mod made of at most MaxParts pieces of ModPieces.                    *)

ModPieces == {moduleKw, <<"a">>, <<".">>, <<"/">>, <<"\"">>, <<"\n">>, <<"\r">>}

GoMods ==
    {NoGoMod} \cup
    {[exists |-> TRUE, content |-> Flatten(parts)] : parts \in SeqsUpTo(ModPieces, MaxParts)}

InitPkg ==
    /\ goMod \in GoMods
    /\ d = NoDocen /\ dir = NoDir /\ runVer = <<>>
    /\ pc = "call" /\ op = <<"none">> /\ data = <<>> /\ ret = Returns("")

CallGetPackageName ==
    /\ pc = "call"
    /\ ret' = getPackageName
    /\ pc' = IF getPackageName.panic THEN "panic" ELSE "returned"
    /\ op' = <<"getPackageName">>
    /\ UNCHANGED <<d, dir, goMod, runVer, data>>

NextPkg == CallGetPackageName

SpecPkg == InitPkg /\ [][NextPkg]_vars

----------------------------------------------------------------------------
(* Claims about the probes.                                                *)

HasDigit(s) == \E i \in 1..Len(s) : s[i] \in Digits

\* the characters of s that are digits or periods, in order
NumericPart(s) == SelectSeq(s, InClass)

\* C5: for every runtime version string, getVersion returns the digits and
\* periods of the string followed by "-alpine" when the string has a digit,
\* and the bare tag "alpine" when it has none (a string with periods and no
\* digit included).
C5_GetVersionAsClaimed ==
    pc = "returned" =>
        /\ HasDigit(runVer) => ret = Str(NumericPart(runVer)) \o "-alpine"
        /\ ~HasDigit(runVer) => ret = "alpine"

\* the last "/"-delimited segment of X, periods replaced by underscores
ExpectedName(X) ==
    LET seg == SubSeq(X, LastSep(X, Len(X)) + 1, Len(X)) IN
    Str([i \in 1..Len(seg) |-> IF seg[i] = "." THEN "_" ELSE seg[i]])

FirstLine == ReadLine(goMod.content).data

ModuleArg == SubSeq(FirstLine, Len(moduleKw) + 1, Len(FirstLine))

HasModuleLine ==
    /\ goMod.exists
    /\ HasPrefixAt(FirstLine, 1, moduleKw)
    /\ ModuleArg # <<>>
    /\ \A i \in 1..Len(ModuleArg) : ModuleArg[i] # "\r"

IsQuoted(X) ==
    /\ Len(X) >= 3
    /\ X[1] = "\"" /\ X[Len(X)] = "\""
    /\ \A i \in 2..(Len(X) - 1) : X[i] \in {"a", ".", "/"}

\* C3: for every first line `module X` or `module "X"`, parsePackageName
\* returns the last "/"-delimited segment of X with periods replaced by
\* underscores; in the unquoted form X may contain `module ` or a quotation
\* mark.
C3_ParseAsClaimed ==
    (pc # "call" /\ HasModuleLine) =>
        /\ pc = "returned"
        /\ ret.val = IF IsQuoted(ModuleArg)
                     THEN ExpectedName(SubSeq(ModuleArg, 2, Len(ModuleArg) - 1))
                     ELSE ExpectedName(ModuleArg)

Unparsable ==
    \/ ~goMod.exists
    \/ goMod.content = <<>>
    \/ FirstLine = <<>>
    \/ FirstLine = moduleKw
    \/ ~HasPrefixAt(FirstLine, 1, moduleKw)

\* C4: for every go.mod that cannot be opened, is empty, has an empty first
\* line, has the first line `module ` alone, or has a first line that does
\* not begin with `module `, getPackageName returns "app" and no run-time
\* failure occurs.
C4_FallbackAsClaimed ==
    (pc # "call" /\ Unparsable) => (pc = "returned" /\ ret = Returns(defaultAppName))

----------------------------------------------------------------------------
(* Claims about the configuration and the generated text.                  *)

Lines == {data[i] : i \in DOMAIN data}

Count(S) == Cardinality({i \in DOMAIN data : data[i] \in S})

\* want is a subsequence of text[j..]
RECURSIVE SubseqFrom(_, _, _)
SubseqFrom(want, text, j) ==
    IF want = <<>> THEN TRUE
    ELSE IF j > Len(text) THEN FALSE
    ELSE IF text[j] = Head(want) THEN SubseqFrom(Tail(want), text, j + 1)
    ELSE SubseqFrom(want, text, j + 1)

InOrder(want) == SubseqFrom(want, data, 1)

FilesHaveParents == \A p \in d.additionFiles : Dir(p) \in d.additionFolders

\* C1: after any setter calls every path of the file set has its parent
\* directory in the folder set, and SetAdditionalFile(p) with p already in
\* the file set changes neither set.
C1_FileImpliesParentFolder ==
    /\ []FilesHaveParents
    /\ [][(pc' = "built" /\ op'[1] = "SetAdditionalFile" /\ op'[2] \in d.additionFiles)
            => /\ d'.additionFiles = d.additionFiles
               /\ d'.additionFolders = d.additionFolders]_vars

C1_Witness ==
    /\ op[1] = "SetAdditionalFile" /\ op[2] = anotherFile
    /\ d.additionFiles = FilePaths
    /\ Dir(anotherFile) \in d.additionFolders
    /\ Dir(anotherFile) \notin FolderPaths \cup getAdditionalFolders

\* the configuration of ExampleNew, built in any working directory
ExampleConfig ==
    d = [timezone |-> "Europe/Moscow", version |-> "1.14.9-alpine", port |-> "3000",
         additionFolders |-> getAdditionalFolders \cup {myFolder, anotherFolder},
         additionFiles |-> {anotherFile}, isTestMode |-> TRUE]

BuilderLineOfExample == "FROM golang:1.14.9-alpine as builder"

BuildLines(packageName) == {BuildLine(tag, packageName) : tag \in {"", "-mod=vendor"}}

\* C2 as stated: for the configuration of ExampleNew the text contains, in
\* this order, the builder stage line, the test directive, the build
\* directive, EXPOSE 3000, ENV TZ=Europe/Moscow, and then the COPY
\* directives of the extra folder and the extra file.
C2_OrderAsClaimed ==
    (pc = "done" /\ ExampleConfig) =>
        LET pkg == getPackageName.val IN
        \E build \in BuildLines(pkg) :
        \E copies \in {<<CopyLine(pkg, myFolder), CopyLine(pkg, anotherFile)>>,
                       <<CopyLine(pkg, anotherFile), CopyLine(pkg, myFolder)>>} :
            InOrder(<<BuilderLineOfExample, TestLine, build,
                      "EXPOSE 3000", "ENV TZ=Europe/Moscow">> \o copies)

\* C2 amended: for the configuration of ExampleNew the text contains, in
\* this order, the builder stage line, the test directive, the build
\* directive, ENV TZ=Europe/Moscow, the COPY directive of the extra folder,
\* the COPY directive of the extra file, and then EXPOSE 3000.
C2_OrderOfExample ==
    (pc = "done" /\ ExampleConfig) =>
        LET pkg == getPackageName.val IN
        \E build \in BuildLines(pkg) :
            InOrder(<<BuilderLineOfExample, TestLine, build, "ENV TZ=Europe/Moscow",
                      CopyLine(pkg, myFolder), CopyLine(pkg, anotherFile),
                      "EXPOSE 3000">>)

C2_Witness == pc = "done" /\ ExampleConfig /\ "EXPOSE 3000" \in Lines

ExposeLines == {"EXPOSE " \o p : p \in Ports \cup {""}}

TimezoneLines == {"ENV TZ=" \o tz : tz \in Timezones \cup {""}}

\* C6: the text has an expose directive iff port is non-empty, and then
\* exactly one, EXPOSE <port>; it has a timezone directive iff timezone is
\* non-empty, and then exactly one, ENV TZ=<timezone>; generation never
\* fails because port or timezone is unset.
C6_OptionalDirectives ==
    /\ pc = "done" =>
        /\ IF d.port = "" THEN Count(ExposeLines) = 0
           ELSE Count(ExposeLines) = 1 /\ "EXPOSE " \o d.port \in Lines
        /\ IF d.timezone = "" THEN Count(TimezoneLines) = 0
           ELSE Count(TimezoneLines) = 1 /\ "ENV TZ=" \o d.timezone \in Lines
    /\ pc = "panic" => getPackageName.panic

C6_Witness ==
    /\ pc = "done"
    /\ d.port = "3000-4000" /\ d.timezone = ""
    /\ Count(ExposeLines) = 1 /\ Count(TimezoneLines) = 0

AllowedDirsListed ==
    IF dir.err THEN {}
    ELSE {dir.files[i].name :
            i \in {j \in DOMAIN dir.files :
                     dir.files[j].isDir /\ dir.files[j].name \in additionalFolders}}

\* C7: New returns a configuration whose version is getVersion's result,
\* whose folder set holds exactly the listed directories of the allow-list
\* (none when the listing fails), whose file set, port and timezone are
\* empty and whose test mode is off.
C7_NewDefaults ==
    op[1] = "New" =>
        /\ d.version = getVersion
        /\ d.additionFolders = AllowedDirsListed
        /\ d.additionFiles = {}
        /\ d.port = "" /\ d.timezone = ""
        /\ d.isTestMode = FALSE

C7_Witness ==
    /\ op[1] = "New"
    /\ d.additionFolders = {static}
    /\ \E i \in DOMAIN dir.files :
          ~dir.files[i].isDir /\ dir.files[i].name \in additionalFolders

VendorDirListed ==
    /\ ~dir.err
    /\ \E i \in DOMAIN dir.files :
          dir.files[i].isDir /\ dir.files[i].name = vendorFolderName

\* C8: the build directive carries -mod=vendor iff the listing succeeds and
\* has a directory named vendor.
C8_VendorFlag ==
    pc = "done" =>
        LET pkg == getPackageName.val IN
        /\ BuildLine("-mod=vendor", pkg) \in Lines <=> VendorDirListed
        /\ BuildLine("", pkg) \in Lines <=> ~VendorDirListed

C8_Witness ==
    /\ pc = "done"
    /\ VendorDirListed
    /\ BuildLine("-mod=vendor", getPackageName.val) \in Lines

\* C9: GenerateDockerfile returns the error of the write, unchanged, and nil
\* when the write succeeds; a failed listing or a go.mod that cannot be
\* opened does not make it fail.
C9_OnlyWriteErrors ==
    /\ pc = "done" => ret = op[2]
    /\ (pc # "built" /\ ~goMod.exists) => pc = "done"

C9_Witness ==
    /\ pc = "done"
    /\ dir.err /\ ~goMod.exists
    /\ op[2] = "EACCES" /\ ret = "EACCES"

Fields == {"timezone", "version", "port", "additionFolders", "additionFiles", "isTestMode"}

Own(name) ==
    CASE name = "SetGoVersion" -> {"version"}
      [] name = "SetPort" -> {"port"}
      [] name = "SetTimezone" -> {"timezone"}
      [] name = "SetTestMode" -> {"isTestMode"}
      [] name = "SetAdditionalFolder" -> {"additionFolders"}
      [] name = "SetAdditionalFile" -> {"additionFiles", "additionFolders"}

\* C10: every setter returns its receiver and changes only its own field:
\* SetGoVersion sets version to v-alpine, SetPort, SetTimezone and
\* SetTestMode store their argument, SetAdditionalFolder adds path to the
\* folder set, SetAdditionalFile adds path to the file set and its parent to
\* the folder set; no setter removes an entry of either set.
C10_SettersFrame ==
    [][pc' = "built" =>
        /\ ret' = receiver
        /\ \A f \in Fields \ Own(op'[1]) : d'[f] = d[f]
        /\ d.additionFolders \subseteq d'.additionFolders
        /\ d.additionFiles \subseteq d'.additionFiles
        /\ CASE op'[1] = "SetGoVersion" -> d'.version = op'[2] \o "-alpine"
             [] op'[1] = "SetPort" -> d'.port = op'[2]
             [] op'[1] = "SetTimezone" -> d'.timezone = op'[2]
             [] op'[1] = "SetTestMode" -> d'.isTestMode = op'[2]
             [] op'[1] = "SetAdditionalFolder" ->
                    d'.additionFolders = d.additionFolders \cup {op'[2]}
             [] op'[1] = "SetAdditionalFile" ->
                    /\ d'.additionFiles = d.additionFiles \cup {op'[2]}
                    /\ d'.additionFolders = d.additionFolders \cup {Dir(op'[2])}
      ]_vars

C10_Witness ==
    /\ op[1] = "SetTimezone" /\ d.timezone = "Europe/Moscow"
    /\ d.port = "3000" /\ d.version = "1.14.9-alpine" /\ d.isTestMode
    /\ d.additionFiles # {} /\ myFolder \in d.additionFolders

====
